---- MODULE Spec2Model ----
(***************************************************************************)
(* Model of the shell emulator of src/shell_emulator.py.                   *)
(*                                                                         *)
(* A Python string is a sequence of one-character strings, so that         *)
(* startswith, split, os.path.join and os.path.normpath are computed       *)
(* character by character as the library computes them.  Literal text of   *)
(* the program that is only ever concatenated (the diagnostics, the log    *)
(* action names) is kept as one element of the sequence.                   *)
(***************************************************************************)
EXTENDS Integers, Sequences, FiniteSets, TLC

VARIABLES
    hostname,       \* self.hostname
    fs,             \* self.fs: the dict in insertion order, <<[name, type, size], ...>>
    current_dir,    \* self.current_dir
    log,            \* the <entry> children of the <log> root of the log file
    session,        \* "Running", or "Terminated" once exit() has raised SystemExit
    command_line,   \* the line on_enter last read from the entry widget and echoed
    output,         \* the value run_command returned to on_enter for that line
    prompt,         \* the prompt display_prompt last inserted
    rp_path,        \* resolve_path: the argument of the call under study
    rp_ret,         \* resolve_path: the value it returned
    rp_prev,        \* resolve_path: the value the call before it returned
    rp_calls        \* resolve_path: how many calls have been made

vars == <<hostname, fs, current_dir, log, session, command_line, output, prompt,
          rp_path, rp_ret, rp_prev, rp_calls>>

----------------------------------------------------------------------------
(* Bounds *)

\* the longest log the session is followed to
MaxLog == 2

\* the longest string given to resolve_path in ResolveSpec
MaxLen == 5

\* the longest absolute string whose normal form is taken as a current directory
MaxDirLen == 3

----------------------------------------------------------------------------
(* Python str and os.path *)

\* str.startswith
startswith(s, prefix) ==
    /\ Len(prefix) <= Len(s)
    /\ SubSeq(s, 1, Len(prefix)) = prefix

\* str.endswith
endswith(s, suffix) ==
    /\ Len(suffix) <= Len(s)
    /\ SubSeq(s, Len(s) - Len(suffix) + 1, Len(s)) = suffix

\* sep.join(parts)
RECURSIVE str_join(_, _)
str_join(sep, parts) ==
    IF parts = <<>> THEN <<>>
    ELSE IF Len(parts) = 1 THEN parts[1]
    ELSE parts[1] \o sep \o str_join(sep, Tail(parts))

\* s.split(c) for a one-character separator: empty fields are kept
RECURSIVE split_on(_, _, _)
split_on(s, c, field) ==
    IF s = <<>> THEN <<field>>
    ELSE IF Head(s) = c THEN <<field>> \o split_on(Tail(s), c, <<>>)
    ELSE split_on(Tail(s), c, Append(field, Head(s)))

\* the characters str.split() and str.strip() treat as whitespace
Whitespace == {" ", "\t"}

\* s.strip().split(): the maximal runs of non-whitespace characters
RECURSIVE split_ws(_, _)
split_ws(s, field) ==
    IF s = <<>> THEN (IF field = <<>> THEN <<>> ELSE <<field>>)
    ELSE IF Head(s) \in Whitespace
         THEN (IF field = <<>> THEN <<>> ELSE <<field>>) \o split_ws(Tail(s), <<>>)
         ELSE split_ws(Tail(s), Append(field, Head(s)))

\* str(n) for a non-negative integer
RECURSIVE str_int(_)
str_int(n) ==
    LET digit == <<"0", "1", "2", "3", "4", "5", "6", "7", "8", "9">>[(n % 10) + 1]
    IN  IF n < 10 THEN <<digit>> ELSE Append(str_int(n \div 10), digit)

\* posixpath.join(a, b)
os_path_join(a, b) ==
    IF startswith(b, <<"/">>) THEN b
    ELSE IF a = <<>> \/ endswith(a, <<"/">>) THEN a \o b
    ELSE a \o <<"/">> \o b

\* the loop of posixpath.normpath over the components
RECURSIVE normpath_comps(_, _, _)
normpath_comps(comps, new_comps, initial_slashes) ==
    IF comps = <<>> THEN new_comps
    ELSE LET comp == Head(comps)
             rest == Tail(comps)
         IN  IF comp \in {<<>>, <<".">>}
             THEN normpath_comps(rest, new_comps, initial_slashes)
             ELSE IF \/ comp # <<".", ".">>
                     \/ (initial_slashes = 0 /\ new_comps = <<>>)
                     \/ (new_comps # <<>> /\ new_comps[Len(new_comps)] = <<".", ".">>)
             THEN normpath_comps(rest, Append(new_comps, comp), initial_slashes)
             ELSE IF new_comps # <<>>
             THEN normpath_comps(rest, SubSeq(new_comps, 1, Len(new_comps) - 1),
                                 initial_slashes)
             ELSE normpath_comps(rest, new_comps, initial_slashes)

\* posixpath.normpath
normpath(path) ==
    IF path = <<>> THEN <<".">>
    ELSE LET initial_slashes ==
                 IF ~startswith(path, <<"/">>) THEN 0
                 ELSE IF startswith(path, <<"/", "/">>)
                         /\ ~startswith(path, <<"/", "/", "/">>) THEN 2
                 ELSE 1
             comps == normpath_comps(split_on(path, "/", <<>>), <<>>, initial_slashes)
             joined == str_join(<<"/">>, comps)
             result == [i \in 1..initial_slashes |-> "/"] \o joined
         IN  IF result = <<>> THEN <<".">> ELSE result

----------------------------------------------------------------------------
(* ShellEmulator.resolve_path *)

\* resolve_path with the test for an absolute path dropped
resolve_path_always_joins(path) ==
    normpath(current_dir \o <<"/">> \o path)

resolve_path(path) ==
    normpath(IF ~startswith(path, <<"/">>)
             THEN os_path_join(current_dir, path)
             ELSE path)

----------------------------------------------------------------------------
(* ShellEmulator.load_fs *)

\* the index of the key name in the dict d, 0 when it is absent
key_index(d, name) ==
    IF \E i \in 1..Len(d) : d[i].name = name
    THEN CHOOSE i \in 1..Len(d) : d[i].name = name
    ELSE 0

\* a dict assigns in place to a key it has and appends a new key otherwise
dict_set(d, name, value) ==
    LET entry == [name |-> name, type |-> value.type, size |-> value.size]
        i == key_index(d, name)
    IN  IF i = 0 THEN Append(d, entry) ELSE [d EXCEPT ![i] = entry]

\* the loop over tar.getmembers(), starting from the dict d
RECURSIVE load_fs(_, _)
load_fs(d, members) ==
    IF members = <<>> THEN d
    ELSE load_fs(dict_set(d, Head(members).name,
                          [type |-> IF Head(members).isdir THEN "dir" ELSE "file",
                           size |-> Head(members).size]),
                 Tail(members))

\* path in self.fs
in_fs(path) == key_index(fs, path) # 0

\* self.fs[path], for a path in self.fs
fs_get(path) == fs[key_index(fs, path)]

\* [name for name in self.fs if name.startswith(path) and name != path], to entry i
RECURSIVE ls_contents(_, _)
ls_contents(path, i) ==
    IF i = 0 THEN <<>>
    ELSE LET name == fs[i].name
         IN  IF startswith(name, path) /\ name # path
             THEN Append(ls_contents(path, i - 1), name)
             ELSE ls_contents(path, i - 1)

\* sum(self.fs[name]['size'] for name in self.fs if name.startswith(path)), to entry i
RECURSIVE du_size(_, _)
du_size(path, i) ==
    IF i = 0 THEN 0
    ELSE du_size(path, i - 1)
         + (IF startswith(fs[i].name, path) THEN fs[i].size ELSE 0)

----------------------------------------------------------------------------
(* The command handlers.  Each yields what the call leaves behind: the     *)
(* value returned, self.current_dir, self.fs, the log, and whether exit()  *)
(* was called (SystemExit raised instead of a return).                     *)

\* log_action writing a fresh tree instead of the parsed one
log_action_truncates(action, details) ==
    <<[action |-> action, details |-> details]>>

\* log_action: parse the log file, add one <entry> at the end, write it back
log_action(action, details) ==
    Append(log, [action |-> action, details |-> details])

Returns(ret, dir, entries) ==
    [ret |-> ret, current_dir |-> dir, fs |-> fs, log |-> entries, exited |-> FALSE]

\* command_ls leaving the session in the directory it listed
command_ls_changes_dir(args) ==
    LET path == resolve_path(IF args # <<>> THEN args[1] ELSE <<".">>)
    IN  IF in_fs(path) /\ fs_get(path).type = "dir"
        THEN Returns(str_join(<<"\n">>, ls_contents(path, Len(fs))),
                     path, log_action("ls", path))
        ELSE Returns(<<"ls: cannot access '">> \o path
                         \o <<"': No such file or directory">>,
                     current_dir, log)

\* command_ls with the default argument of command_cd
command_ls_defaults_to_root(args) ==
    LET path == resolve_path(IF args # <<>> THEN args[1] ELSE <<"/">>)
    IN  IF in_fs(path) /\ fs_get(path).type = "dir"
        THEN Returns(str_join(<<"\n">>, ls_contents(path, Len(fs))),
                     current_dir, log_action("ls", path))
        ELSE Returns(<<"ls: cannot access '">> \o path
                         \o <<"': No such file or directory">>,
                     current_dir, log)

\* command_ls listing what lies below path only: names starting with path + '/'
command_ls_hierarchical(args) ==
    LET path == resolve_path(IF args # <<>> THEN args[1] ELSE <<".">>)
    IN  IF in_fs(path) /\ fs_get(path).type = "dir"
        THEN Returns(str_join(<<"\n">>, ls_contents(path \o <<"/">>, Len(fs))),
                     current_dir, log_action("ls", path))
        ELSE Returns(<<"ls: cannot access '">> \o path
                         \o <<"': No such file or directory">>,
                     current_dir, log)

\* command_ls with the test of command_du: any entry will do
command_ls_lists_any_entry(args) ==
    LET path == resolve_path(IF args # <<>> THEN args[1] ELSE <<".">>)
    IN  IF in_fs(path)
        THEN Returns(str_join(<<"\n">>, ls_contents(path, Len(fs))),
                     current_dir, log_action("ls", path))
        ELSE Returns(<<"ls: cannot access '">> \o path
                         \o <<"': No such file or directory">>,
                     current_dir, log)

command_ls(args) ==
    LET path == resolve_path(IF args # <<>> THEN args[1] ELSE <<".">>)
    IN  IF in_fs(path) /\ fs_get(path).type = "dir"
        THEN Returns(str_join(<<"\n">>, ls_contents(path, Len(fs))),
                     current_dir, log_action("ls", path))
        ELSE Returns(<<"ls: cannot access '">> \o path
                         \o <<"': No such file or directory">>,
                     current_dir, log)

\* command_cd assigning self.current_dir before the test
command_cd_moves_on_failure(args) ==
    LET path == IF args # <<>> THEN resolve_path(args[1]) ELSE <<"/">>
    IN  IF in_fs(path) /\ fs_get(path).type = "dir"
        THEN Returns(<<>>, path, log_action("cd", path))
        ELSE Returns(<<"cd: ">> \o path \o <<": No such file or directory">>,
                     path, log)

command_cd(args) ==
    LET path == IF args # <<>> THEN resolve_path(args[1]) ELSE <<"/">>
    IN  IF in_fs(path) /\ fs_get(path).type = "dir"
        THEN Returns(<<>>, path, log_action("cd", path))
        ELSE Returns(<<"cd: ">> \o path \o <<": No such file or directory">>,
                     current_dir, log)

\* command_exit without the call of exit()
command_exit_returns(args) ==
    Returns(<<>>, current_dir, log_action("exit", <<>>))

command_exit(args) ==
    [ret |-> <<>>, current_dir |-> current_dir, fs |-> fs,
     log |-> log_action("exit", <<>>), exited |-> TRUE]

\* command_uname ending with the exit(0) of command_exit
command_uname_exits(args) ==
    [ret |-> <<"UNIX Shell Emulator">>, current_dir |-> current_dir, fs |-> fs,
     log |-> log_action("uname", <<>>), exited |-> TRUE]

command_uname(args) ==
    Returns(<<"UNIX Shell Emulator">>, current_dir, log_action("uname", <<>>))

\* command_chmod writing the entry back without its size
command_chmod_rewrites_entry(args) ==
    IF Len(args) # 2
    THEN Returns(<<"chmod: missing operand">>, current_dir, log)
    ELSE LET path == resolve_path(args[2])
         IN  IF in_fs(path)
             THEN [Returns(<<>>, current_dir,
                           log_action("chmod", args[1] \o <<" ">> \o path))
                   EXCEPT !.fs = [fs EXCEPT ![key_index(fs, path)] =
                                     [name |-> path, type |-> fs_get(path).type,
                                      size |-> 0]]]
             ELSE Returns(<<"chmod: cannot access '">> \o path
                              \o <<"': No such file or directory">>,
                          current_dir, log)

\* command_chmod testing for too few arguments only
command_chmod_accepts_extra(args) ==
    IF Len(args) < 2
    THEN Returns(<<"chmod: missing operand">>, current_dir, log)
    ELSE LET path == resolve_path(args[2])
         IN  IF in_fs(path)
             THEN Returns(<<>>, current_dir,
                          log_action("chmod", args[1] \o <<" ">> \o path))
             ELSE Returns(<<"chmod: cannot access '">> \o path
                              \o <<"': No such file or directory">>,
                          current_dir, log)

command_chmod(args) ==
    IF Len(args) # 2
    THEN Returns(<<"chmod: missing operand">>, current_dir, log)
    ELSE LET path == resolve_path(args[2])
         IN  IF in_fs(path)
             THEN Returns(<<>>, current_dir,
                          log_action("chmod", args[1] \o <<" ">> \o path))
             ELSE Returns(<<"chmod: cannot access '">> \o path
                              \o <<"': No such file or directory">>,
                          current_dir, log)

\* command_du logging before the test
command_du_logs_failure(args) ==
    LET path == IF args # <<>> THEN resolve_path(args[1]) ELSE current_dir
    IN  IF in_fs(path)
        THEN Returns(str_int(du_size(path, Len(fs))) \o <<"\t">> \o path,
                     current_dir, log_action("du", path))
        ELSE Returns(<<"du: cannot access '">> \o path
                         \o <<"': No such file or directory">>,
                     current_dir, log_action("du", path))

\* command_du summing what lies below path only: names starting with path + '/'
command_du_skips_self(args) ==
    LET path == IF args # <<>> THEN resolve_path(args[1]) ELSE current_dir
    IN  IF in_fs(path)
        THEN Returns(str_int(du_size(path \o <<"/">>, Len(fs))) \o <<"\t">> \o path,
                     current_dir, log_action("du", path))
        ELSE Returns(<<"du: cannot access '">> \o path
                         \o <<"': No such file or directory">>,
                     current_dir, log)

command_du(args) ==
    LET path == IF args # <<>> THEN resolve_path(args[1]) ELSE current_dir
    IN  IF in_fs(path)
        THEN Returns(str_int(du_size(path, Len(fs))) \o <<"\t">> \o path,
                     current_dir, log_action("du", path))
        ELSE Returns(<<"du: cannot access '">> \o path
                         \o <<"': No such file or directory">>,
                     current_dir, log)

\* the keys of the dispatch table of run_command
verb_ls    == <<"l", "s">>
verb_cd    == <<"c", "d">>
verb_exit  == <<"e", "x", "i", "t">>
verb_uname == <<"u", "n", "a", "m", "e">>
verb_chmod == <<"c", "h", "m", "o", "d">>
verb_du    == <<"d", "u">>

\* run_command logging the verbs it does not know
run_command_logs_unknown(line) ==
    LET parts == split_ws(line, <<>>)
    IN  IF parts = <<>> THEN Returns(<<>>, current_dir, log)
        ELSE LET command == parts[1]
                 args == Tail(parts)
             IN  CASE command = verb_ls    -> command_ls(args)
                   [] command = verb_cd    -> command_cd(args)
                   [] command = verb_exit  -> command_exit(args)
                   [] command = verb_uname -> command_uname(args)
                   [] command = verb_chmod -> command_chmod(args)
                   [] command = verb_du    -> command_du(args)
                   [] OTHER -> Returns(command \o <<": command not found">>,
                                       current_dir, log_action("unknown", command))

run_command(line) ==
    LET parts == split_ws(line, <<>>)
    IN  IF parts = <<>> THEN Returns(<<>>, current_dir, log)
        ELSE LET command == parts[1]
                 args == Tail(parts)
             IN  CASE command = verb_ls    -> command_ls(args)
                   [] command = verb_cd    -> command_cd(args)
                   [] command = verb_exit  -> command_exit(args)
                   [] command = verb_uname -> command_uname(args)
                   [] command = verb_chmod -> command_chmod(args)
                   [] command = verb_du    -> command_du(args)
                   [] OTHER -> Returns(command \o <<": command not found">>,
                                       current_dir, log)

\* the prompt display_prompt inserts for the directory dir
display_prompt(dir) == <<hostname, ":">> \o dir \o <<"$ ">>

----------------------------------------------------------------------------
(* The inputs: archives and command lines *)

Member(name, isdir, size) == [name |-> name, isdir |-> isdir, size |-> size]

\* an archive stored with absolute member names; /ab shares the prefix /a
TarAbsolute ==
    << Member(<<"/", "a">>, TRUE, 0),
       Member(<<"/", "a", "/", "b">>, FALSE, 42),
       Member(<<"/", "a", "b">>, FALSE, 7) >>

\* the same tree as tar stores it by default, member names relative
TarRelative ==
    << Member(<<"a">>, TRUE, 0),
       Member(<<"a", "/", "b">>, FALSE, 42) >>

\* a member name with two leading separators, and a member stored twice
TarDoubleSlash ==
    << Member(<<"/", "/", "a">>, TRUE, 0),
       Member(<<"/", "/", "a">>, TRUE, 0) >>

Archives == {TarAbsolute, TarRelative, TarDoubleSlash}

Hostnames == {"host1", "host2"}

\* the path arguments typed
PathArgs ==
    { <<"/">>, <<"/", "a">>, <<"a">>, <<"/", "a", "/", "b">>, <<"b">>, <<".", ".">>,
      <<".">>, <<"/", "c">>, <<"/", "/", "a">> }

ModeArg == <<"7", "5", "5">>

\* the command lines typed
Lines ==
    LET sp == <<" ">>
        foo == <<"f", "o", "o">>
    IN  { <<>>, <<" ", "\t">>, foo, foo \o sp \o <<"b", "a", "r">>,
          verb_ls \o <<"x">> \o sp \o <<"/", "a">>,
          verb_uname, verb_exit, verb_exit \o sp \o <<"a">>,
          verb_ls, verb_cd, verb_du, verb_chmod,
          verb_chmod \o sp \o ModeArg,
          verb_chmod \o sp \o ModeArg \o sp \o <<"/", "a">> \o sp \o <<"b">>,
          sp \o verb_cd \o <<" ", " ">> \o <<"/", "a">> \o sp }
        \cup { v \o sp \o p : v \in {verb_ls, verb_cd, verb_du}, p \in PathArgs }
        \cup { verb_chmod \o sp \o ModeArg \o sp \o p : p \in PathArgs }

----------------------------------------------------------------------------
(* The session *)

Init ==
    /\ hostname \in Hostnames
    /\ fs \in { load_fs(<<>>, members) : members \in Archives }
    /\ current_dir = <<"/">>
    /\ log = <<>>
    /\ session = "Running"
    /\ command_line = <<>>
    /\ output = <<>>
    /\ prompt = <<hostname, ":", "/", "$ ">>
    /\ rp_path = <<>>
    /\ rp_ret = <<>>
    /\ rp_prev = <<>>
    /\ rp_calls = 0

\* on_enter for the line typed: echo it, run it, show the output and the prompt;
\* exit() unwinds through on_enter and the main loop, so nothing is shown after it
on_enter(line) ==
    /\ session = "Running"
    /\ Len(log) < MaxLog
    /\ LET r == run_command(line)
       IN  /\ command_line' = line
           /\ current_dir' = r.current_dir
           /\ fs' = r.fs
           /\ log' = r.log
           /\ IF r.exited
              THEN /\ session' = "Terminated"
                   /\ UNCHANGED <<output, prompt>>
              ELSE /\ session' = session
                   /\ output' = r.ret
                   /\ prompt' = display_prompt(r.current_dir)
    /\ UNCHANGED <<hostname, rp_path, rp_ret, rp_prev, rp_calls>>

Next == \E line \in Lines : on_enter(line)

Spec == Init /\ [][Next]_vars

----------------------------------------------------------------------------
(* resolve_path on its own: every string up to MaxLen, from every directory *)
(* the session can be in, resolved and then resolved again                  *)

PathChars == {"/", ".", "a"}

Strings(n) == UNION { [1..k -> PathChars] : k \in 0..n }

\* current_dir is '/' or a value resolve_path returned for an absolute string
CurrentDirs == { normpath(s) : s \in { t \in Strings(MaxDirLen) : startswith(t, <<"/">>) } }

ResolveInit ==
    /\ hostname = "host1"
    /\ fs = <<>>
    /\ current_dir \in CurrentDirs
    /\ log = <<>>
    /\ session = "Running"
    /\ command_line = <<>>
    /\ output = <<>>
    /\ prompt = <<>>
    /\ rp_path \in Strings(MaxLen) \ {<<>>}
    /\ rp_ret = <<>>
    /\ rp_prev = <<>>
    /\ rp_calls = 0

ResolveFirst ==
    /\ rp_calls = 0
    /\ rp_ret' = resolve_path(rp_path)
    /\ rp_prev' = rp_path
    /\ rp_calls' = 1
    /\ UNCHANGED <<hostname, fs, current_dir, log, session, command_line, output,
                   prompt, rp_path>>

ResolveAgain ==
    /\ rp_calls = 1
    /\ rp_ret' = resolve_path(rp_ret)
    /\ rp_prev' = rp_ret
    /\ rp_calls' = 2
    /\ UNCHANGED <<hostname, fs, current_dir, log, session, command_line, output,
                   prompt, rp_path>>

ResolveNext == ResolveFirst \/ ResolveAgain

ResolveSpec == ResolveInit /\ [][ResolveNext]_vars

----------------------------------------------------------------------------
(* Vocabulary of the properties *)

\* the words of the line on_enter last handled
Parts == split_ws(command_line, <<>>)

\* the words of the line the step handles
Parts_ == split_ws(command_line', <<>>)

\* the action name logged for each verb of the dispatch table
ActionName(verb) ==
    CASE verb = verb_ls    -> "ls"
      [] verb = verb_cd    -> "cd"
      [] verb = verb_exit  -> "exit"
      [] verb = verb_uname -> "uname"
      [] verb = verb_chmod -> "chmod"
      [] verb = verb_du    -> "du"

Verbs == {verb_ls, verb_cd, verb_exit, verb_uname, verb_chmod, verb_du}

\* the text a diagnostic of ls, cd, chmod or du starts with
Diagnostics ==
    { "ls: cannot access '", "cd: ", "chmod: missing operand",
      "chmod: cannot access '", "du: cannot access '" }

\* out is one of the failure texts of ls, cd, chmod and du
Failed(out) == out # <<>> /\ out[1] \in Diagnostics

\* the table has an entry under path / a Directory entry under path
IsEntry(path) == \E i \in 1..Len(fs) : fs[i].name = path
IsDirectory(path) == \E i \in 1..Len(fs) : fs[i].name = path /\ fs[i].type = "dir"

\* log2 is log1 with exactly one record added at the end
OneAppended(log1, log2) ==
    /\ Len(log2) = Len(log1) + 1
    /\ SubSeq(log2, 1, Len(log1)) = log1

ExitRecord == [action |-> "exit", details |-> <<>>]
NoSuchFile == ": No such file or directory"

----------------------------------------------------------------------------
(* C1: a cd step changes the current directory only when the resolved path *)
(* (/ without an argument) is a Directory entry of the table, and then the *)
(* new current directory is that path; otherwise it returns                *)
(* "cd: <resolved path>: No such file or directory" and the current        *)
(* directory is what it was.                                               *)
C1_CdOnlyIntoDirectory ==
    [][ (Parts_ # <<>> /\ Parts_[1] = verb_cd) =>
          LET path == IF Len(Parts_) > 1 THEN resolve_path(Parts_[2]) ELSE <<"/">>
          IN  IF IsDirectory(path)
              THEN current_dir' = path
              ELSE /\ output' = <<"cd: ">> \o path \o <<NoSuchFile>>
                   /\ current_dir' = current_dir ]_vars

\* a cd into /c has failed in /a, after the cd that led there
C1_Witness ==
    /\ current_dir = <<"/", "a">>
    /\ Parts = <<verb_cd, <<"/", "c">>>>
    /\ output = <<"cd: ", "/", "c", NoSuchFile>>

(* C2: every line handled adds exactly one record, with the verb as its    *)
(* action, when the verb is uname or exit or an ls, cd, du or chmod that   *)
(* did not return a failure text, and adds none otherwise (unknown verb,   *)
(* empty line, failed command); with the log empty at start, its length is *)
(* the number of successful recognized commands.                           *)
C2_OneRecordPerSuccess ==
    [][ IF /\ Parts_ # <<>>
           /\ Parts_[1] \in Verbs
           /\ (Parts_[1] \in {verb_uname, verb_exit} \/ ~Failed(output'))
        THEN /\ OneAppended(log, log')
             /\ log'[Len(log')].action = ActionName(Parts_[1])
        ELSE log' = log ]_vars

\* one command has logged and a failing ls after it has not
C2_Witness ==
    /\ Len(log) = 1
    /\ Parts # <<>> /\ Parts[1] = verb_ls
    /\ Failed(output)

(* C3: an exit step appends ("exit", "") and terminates the session; in a  *)
(* terminated session that record is the last of the log and nothing       *)
(* changes any more: no line is handled, the current directory and the log *)
(* stay.                                                                   *)
C3_ExitTerminates ==
    [][ /\ (session = "Running" /\ Parts_ # <<>> /\ Parts_[1] = verb_exit)
            => (session' = "Terminated" /\ log' = Append(log, ExitRecord))
        /\ session = "Terminated"
            => UNCHANGED <<session, log, current_dir, command_line, output, prompt>>
        /\ session' = "Terminated"
            => (log' # <<>> /\ log'[Len(log')] = ExitRecord) ]_vars

\* the session has terminated after a command that logged
C3_Witness ==
    /\ session = "Terminated"
    /\ Len(log) = 2
    /\ log[2] = ExitRecord

(* C4: only an exit step leaves Running: every other line (empty, unknown  *)
(* verb, ls, cd, uname, chmod, du, succeeding or failing) returns a string *)
(* and leaves the session Running with the prompt shown for the next line. *)
C4_OnlyExitLeavesRunning ==
    [][ (Parts_ = <<>> \/ Parts_[1] # verb_exit) =>
            /\ session' = "Running"
            /\ DOMAIN output' = 1..Len(output')
            /\ prompt' = <<hostname, ":">> \o current_dir' \o <<"$ ">> ]_vars

\* after a command that logged, an unknown verb has left the session running
C4_Witness ==
    /\ session = "Running"
    /\ Parts = <<<<"f", "o", "o">>, <<"b", "a", "r">>>>
    /\ output = <<"f", "o", "o", ": command not found">>
    /\ Len(log) = 1

(* C5: / is a valid directory whatever the table holds: after `cd` and     *)
(* `cd /` the current directory is / and the output empty, and `ls` and    *)
(* `du` without argument in / do not return a failure text.                *)
C5_RootAlwaysValid ==
    session = "Running" =>
        /\ Parts \in {<<verb_cd>>, <<verb_cd, <<"/">>>>}
            => (current_dir = <<"/">> /\ output = <<>>)
        /\ (Parts \in {<<verb_ls>>, <<verb_du>>} /\ current_dir = <<"/">>)
            => ~Failed(output)

(* C6: every entry of the table is found under its key: du and chmod of    *)
(* the key succeed, cd and ls of the key succeed exactly when the entry is *)
(* a Directory.                                                            *)
C6_LoadedEntriesFound ==
    \A i \in 1..Len(fs) :
        session = "Running" =>
            /\ Parts \in {<<verb_du, fs[i].name>>, <<verb_chmod, ModeArg, fs[i].name>>}
                => ~Failed(output)
            /\ Parts \in {<<verb_cd, fs[i].name>>, <<verb_ls, fs[i].name>>}
                => (~Failed(output) <=> fs[i].type = "dir")

(* C7: the log is append-only and ordered: every step leaves it as it was  *)
(* or adds exactly one record at its end, the record of the line the step  *)
(* handles; earlier records stay as they are and where they are.           *)
C7_LogAppendOnly ==
    [][ \/ log' = log
        \/ /\ OneAppended(log, log')
           /\ Parts_ # <<>>
           /\ Parts_[1] \in Verbs
           /\ log'[Len(log')].action = ActionName(Parts_[1]) ]_vars

\* two different records, in the order of their commands: a cd, then an ls
C7_Witness ==
    /\ Len(log) = 2
    /\ log[1].action = "cd"
    /\ log[2].action = "ls"
    /\ Parts # <<>> /\ Parts[1] = verb_ls

\* the step handles ls, du, chmod, uname, an unknown verb, an empty line or
\* a command that fails
C8_Listed ==
    \/ Parts_ = <<>>
    \/ Parts_[1] \in {verb_ls, verb_du, verb_chmod, verb_uname}
    \/ Parts_[1] \notin Verbs
    \/ (Parts_[1] # verb_exit /\ Failed(output'))

(* C8 as claimed: every ls, du, chmod, uname, unknown verb, empty line and *)
(* failing command leaves the current directory, the log and the hostname  *)
(* as they were.                                                           *)
C8_AsClaimed ==
    [][ C8_Listed => UNCHANGED <<current_dir, log, hostname>> ]_vars

(* C8, amended: the current directory is / at start and changes only in a  *)
(* successful cd; every ls, du, chmod, uname, unknown verb, empty line and *)
(* failing command leaves the current directory and the hostname as they   *)
(* were; every unknown verb, empty line and failing command leaves the log *)
(* as it was too.                                                          *)
C8_FrameOfCommands ==
    /\ current_dir = <<"/">>
    /\ [][ /\ current_dir' # current_dir
               => (Parts_ # <<>> /\ Parts_[1] = verb_cd /\ output' = <<>>)
           /\ C8_Listed => UNCHANGED <<current_dir, hostname>>
           /\ (Parts_ = <<>> \/ Parts_[1] \notin Verbs
                         \/ (Parts_[1] # verb_exit /\ Failed(output')))
               => log' = log ]_vars

\* an ls has succeeded from /a and left the session there
C8_Witness ==
    /\ Len(log) = 2
    /\ log[1] = [action |-> "cd", details |-> <<"/", "a">>]
    /\ log[2].action = "ls"
    /\ current_dir = <<"/", "a">>

(* C9: no step changes the table: the entries, their order, kinds and      *)
(* sizes stay those loaded at startup, also across chmod.                  *)
C9_TableNeverMutated ==
    [][ fs' = fs ]_vars

\* a chmod has succeeded on the table loaded from the absolute archive
C9_Witness ==
    /\ log # <<>>
    /\ log[Len(log)].action = "chmod"
    /\ Parts # <<>> /\ Parts[1] = verb_chmod
    /\ fs = load_fs(<<>>, TarAbsolute)

(* C10: resolve_path is idempotent: from every current directory,          *)
(* resolving the result of a resolution returns it unchanged.              *)
C10_ResolveIdempotent ==
    rp_calls = 2 => rp_ret = rp_prev

\* a relative path that resolution changed, resolved twice away from the root
C10_Witness ==
    /\ rp_calls = 2
    /\ current_dir # <<"/">>
    /\ ~startswith(rp_path, <<"/">>)
    /\ rp_ret # rp_path

----------------------------------------------------------------------------
(* Vocabulary of the properties of paths *)

\* r is a canonical absolute path: one separator first, no run of separators,
\* no . or .. segment, no separator last unless r is the root
Canonical(r) ==
    /\ r # <<>> /\ r[1] = "/"
    /\ \A i \in 1..(Len(r) - 1) : ~(r[i] = "/" /\ r[i + 1] = "/")
    /\ \A i \in 1..Len(r) :
           LET before == i = 1 \/ r[i - 1] = "/"
           IN  /\ ~(before /\ r[i] = "." /\ (i = Len(r) \/ r[i + 1] = "/"))
               /\ ~(before /\ r[i] = "." /\ i < Len(r) /\ r[i + 1] = "."
                           /\ (i + 1 = Len(r) \/ r[i + 2] = "/"))
    /\ (r[Len(r)] = "/" => r = <<"/">>)

\* the path a step of ls, cd or du works on: its first argument resolved, or
\* the default of the verb
Target_ ==
    IF Len(Parts_) > 1 THEN resolve_path(Parts_[2])
    ELSE IF Parts_[1] = verb_cd THEN <<"/">>
    ELSE current_dir

\* the indices of the entries whose name has path as a string prefix
PrefixedBy(path) == { i \in 1..Len(fs) : startswith(fs[i].name, path) }

\* the sum of the sizes of the entries of indices S
RECURSIVE SumOfSizes(_)
SumOfSizes(S) ==
    IF S = {} THEN 0
    ELSE LET i == CHOOSE j \in S : TRUE
         IN  fs[i].size + SumOfSizes(S \ {i})

CannotAccess(verb, path) ==
    <<verb \o ": cannot access '">> \o path \o <<"': No such file or directory">>

----------------------------------------------------------------------------
(* C11: resolve_path returns a canonical absolute path: it starts with a   *)
(* single separator, has no . or .. segment, no run of two or more         *)
(* separators (also at the start) and no trailing separator unless it is   *)
(* the root.                                                               *)
C11_ResolveCanonical ==
    rp_calls >= 1 => Canonical(rp_ret)

(* C12: resolving . yields the current directory in every state of the     *)
(* session, and ls and du without argument work on the current directory:  *)
(* they log it when it is there (a Directory for ls, an entry for du) and  *)
(* name it in their failure text when it is not.                           *)
C12_DotIsCurrentDir ==
    /\ [](resolve_path(<<".">>) = current_dir)
    /\ [][ /\ Parts_ = <<verb_ls>> =>
               IF IsDirectory(current_dir)
               THEN log' = Append(log, [action |-> "ls", details |-> current_dir])
               ELSE output' = CannotAccess("ls", current_dir) /\ log' = log
           /\ Parts_ = <<verb_du>> =>
               IF IsEntry(current_dir)
               THEN log' = Append(log, [action |-> "du", details |-> current_dir])
               ELSE output' = CannotAccess("du", current_dir) /\ log' = log ]_vars

\* ls without argument has listed /a, the current directory
C12_Witness ==
    /\ Parts = <<verb_ls>>
    /\ current_dir = <<"/", "a">>
    /\ Len(log) = 2
    /\ log[2] = [action |-> "ls", details |-> <<"/", "a">>]

(* C13: du of a path that is an entry reports the sum of the sizes of all  *)
(* entries whose name has the path as a string prefix, the entry itself    *)
(* included, hence at least the size of the entry; du of a path that is no *)
(* entry returns the cannot-access text and logs nothing.                  *)
C13_DuSumsPrefixed ==
    [][ (Parts_ # <<>> /\ Parts_[1] = verb_du) =>
          LET path == Target_
              total == SumOfSizes(PrefixedBy(path))
          IN  IF IsEntry(path)
              THEN /\ output' = str_int(total) \o <<"\t">> \o path
                   /\ \A i \in 1..Len(fs) : fs[i].name = path => total >= fs[i].size
              ELSE /\ output' = CannotAccess("du", path)
                   /\ log' = log ]_vars

\* du /a has reported 49: /a (0), /a/b (42) and the sibling /ab (7)
C13_Witness ==
    /\ Parts = <<verb_du, <<"/", "a">>>>
    /\ output = <<"4", "9", "\t", "/", "a">>

(* C14: ls of a Directory returns, one per line and in the order of the   *)
(* table, exactly the names that have the path as a string prefix and are  *)
(* not the path: every descendant, and also a sibling sharing the prefix.  *)
C14_LsListsPrefixed ==
    [][ (Parts_ # <<>> /\ Parts_[1] = verb_ls) =>
          LET path == resolve_path(IF Len(Parts_) > 1 THEN Parts_[2] ELSE <<".">>)
              Listed(e) == startswith(e.name, path) /\ e.name # path
              listed == SelectSeq(fs, Listed)
          IN  IsDirectory(path) =>
                  output' = str_join(<<"\n">>, [i \in 1..Len(listed) |-> listed[i].name])
      ]_vars

\* ls /a has listed the child /a/b and the sibling /ab, in the order of the table
C14_Witness ==
    /\ Parts = <<verb_ls, <<"/", "a">>>>
    /\ output = <<"/", "a", "/", "b", "\n", "/", "a", "b">>

(* C15: a line of whitespace only returns the empty string and logs        *)
(* nothing; a line whose first word is none of ls, cd, exit, uname, chmod, *)
(* du returns "<word>: command not found" and logs nothing, whatever       *)
(* follows the word.                                                       *)
C15_EmptyAndUnknown ==
    [][ /\ (\A i \in 1..Len(command_line') : command_line'[i] \in Whitespace)
            => (output' = <<>> /\ log' = log /\ current_dir' = current_dir)
        /\ \A i \in 1..Len(command_line') : \A j \in i..Len(command_line') :
               LET word == SubSeq(command_line', i, j)
               IN  ( /\ \A k \in 1..(i - 1) : command_line'[k] \in Whitespace
                     /\ \A k \in i..j : command_line'[k] \notin Whitespace
                     /\ (j = Len(command_line') \/ command_line'[j + 1] \in Whitespace)
                     /\ word \notin Verbs )
                   => ( /\ output' = word \o <<": command not found">>
                        /\ log' = log
                        /\ current_dir' = current_dir ) ]_vars

\* lsx /a, a word that only starts like a verb, was not found after a command
\* that logged
C15_Witness ==
    /\ Parts = <<<<"l", "s", "x">>, <<"/", "a">>>>
    /\ output = <<"l", "s", "x", ": command not found">>
    /\ Len(log) = 1

(* C16: chmod with another number of arguments than two returns            *)
(* "chmod: missing operand" and logs nothing, even when a path it names is *)
(* an entry; with a mode and a path it returns the empty string and logs   *)
(* ("chmod", "<mode> <resolved path>") exactly when the resolved path is   *)
(* an entry, file or directory, and returns the cannot-access text naming  *)
(* the resolved path and logs nothing otherwise.                           *)
C16_ChmodArguments ==
    [][ (Parts_ # <<>> /\ Parts_[1] = verb_chmod) =>
          IF Len(Parts_) # 3
          THEN output' = <<"chmod: missing operand">> /\ log' = log
          ELSE LET path == resolve_path(Parts_[3])
               IN  IF IsEntry(path)
                   THEN /\ output' = <<>>
                        /\ log' = Append(log, [action |-> "chmod",
                                               details |-> Parts_[2] \o <<" ">> \o path])
                   ELSE /\ output' = CannotAccess("chmod", path)
                        /\ log' = log ]_vars

\* chmod 755 /a b, three arguments of which /a is an entry, was refused after
\* chmod 755 /a/b had logged
C16_Witness ==
    /\ Parts = <<verb_chmod, ModeArg, <<"/", "a">>, <<"b">>>>
    /\ output = <<"chmod: missing operand">>
    /\ log = <<[action |-> "chmod",
                details |-> <<"7", "5", "5", " ", "/", "a", "/", "b">>]>>

(* C17: in every state the current directory is / or the name of a         *)
(* Directory entry of the table, and it is a normalized string: a          *)
(* canonical absolute path.                                                *)
C17_CurrentDirIsDirectory ==
    /\ (current_dir = <<"/">> \/ IsDirectory(current_dir))
    /\ Canonical(current_dir)

\* the table has path as the name of a File entry
IsFile(path) == \E i \in 1..Len(fs) : fs[i].name = path /\ fs[i].type = "file"

(* C18: on a path that is a File entry du and chmod succeed and log, while *)
(* ls and cd return their failure text, log nothing and leave the current  *)
(* directory; ls and cd succeed only on a Directory entry.                 *)
C18_FileTargets ==
    [][ Parts_ # <<>> =>
          /\ (Parts_[1] = verb_du /\ IsFile(Target_))
              => (/\ ~Failed(output')
                  /\ log' = Append(log, [action |-> "du", details |-> Target_]))
          /\ (Parts_[1] = verb_chmod /\ Len(Parts_) = 3 /\ IsFile(resolve_path(Parts_[3])))
              => (/\ output' = <<>>
                  /\ OneAppended(log, log')
                  /\ log'[Len(log')].action = "chmod")
          /\ (Parts_[1] = verb_ls /\ IsFile(Target_))
              => (/\ output' = CannotAccess("ls", Target_)
                  /\ log' = log
                  /\ current_dir' = current_dir)
          /\ (Parts_[1] = verb_cd /\ IsFile(Target_))
              => (/\ output' = <<"cd: ">> \o Target_ \o <<NoSuchFile>>
                  /\ log' = log
                  /\ current_dir' = current_dir)
          /\ (Parts_[1] \in {verb_ls, verb_cd} /\ ~Failed(output'))
              => IsDirectory(Target_) ]_vars

\* cd /a/b has failed on the file that du /a/b measured before
C18_Witness ==
    /\ Parts = <<verb_cd, <<"/", "a", "/", "b">>>>
    /\ output = <<"cd: ", "/", "a", "/", "b", NoSuchFile>>
    /\ current_dir = <<"/">>
    /\ log = <<[action |-> "du", details |-> <<"/", "a", "/", "b">>]>>

====
